---- MODULE Spec2Model ----
(***************************************************************************)
(* A model of update_data.py: main, convert_excel_to_json and the two      *)
(* derived-metric functions.  Strings whose characters the code inspects   *)
(* (the Period labels) are sequences of one-character strings.             *)
(***************************************************************************)
EXTENDS Integers, Sequences, FiniteSets, TLC

VARIABLES
    pc,             \* position of main: "main", "read", "loop", "write", "print",
                    \* "exit"; of a lone metric call: "call", "returned"
    argv,           \* sys.argv
    file_read,      \* TRUE once pd.read_excel has been called
    columns,        \* df.columns
    df,             \* the rows of df (each a sequence of cells, in column order)
    idx,            \* position of df.iterrows(), 1-based
    current_year,   \* the string current_year
    has_mnav_data,  \* the flag has_mnav_data
    data,           \* the list data
    data_json,      \* what this run did to the file data.json
    stdout,         \* kinds of message printed, in order
    exit_status,    \* -1 while running, then the process's exit status
    call            \* the calls of the derived-metric functions, with their results

vars == <<pc, argv, file_read, columns, df, idx, current_year, has_mnav_data,
          data, data_json, stdout, exit_status, call>>

----------------------------------------------------------------------------
(* Bounds of the model *)

MaxArgs == 3
MaxRows == 4
MaxVal == 2

----------------------------------------------------------------------------
(* Python string operations used on the Period label *)

Digits == {"0", "1", "2", "3", "4", "5", "6", "7", "8", "9"}

DigitVal(c) ==
    CASE c = "0" -> 0 [] c = "1" -> 1 [] c = "2" -> 2 [] c = "3" -> 3
      [] c = "4" -> 4 [] c = "5" -> 5 [] c = "6" -> 6 [] c = "7" -> 7
      [] c = "8" -> 8 [] c = "9" -> 9

\* s.replace('.', '')
ReplaceDot(s) == SelectSeq(s, LAMBDA c : c # ".")

\* s.isdigit(): non-empty and every character a digit
IsDigit(s) == Len(s) > 0 /\ \A i \in 1..Len(s) : s[i] \in Digits

RECURSIVE DecimalValue(_)
DecimalValue(s) ==
    IF Len(s) = 0 THEN 0
    ELSE 10 * DecimalValue(SubSeq(s, 1, Len(s) - 1)) + DigitVal(s[Len(s)])

\* int(s) for a string of digits and dots: a ValueError unless all digits
ParseInt(s) ==
    IF IsDigit(s) THEN [ok |-> TRUE, val |-> DecimalValue(s)]
    ELSE [ok |-> FALSE, val |-> 0]

DotCount(s) == Cardinality({i \in 1..Len(s) : s[i] = "."})

FirstDot(s) ==
    IF DotCount(s) = 0 THEN Len(s) + 1
    ELSE CHOOSE i \in 1..Len(s) : s[i] = "." /\ \A j \in 1..(i - 1) : s[j] # "."

\* int(float(s)) for a string of digits and dots: float() accepts at most one
\* dot and needs a digit ("3", "3.0", "3.", ".5"); int() truncates toward zero
ParseFloatTrunc(s) ==
    IF IsDigit(ReplaceDot(s)) /\ DotCount(s) <= 1
    THEN [ok |-> TRUE, val |-> DecimalValue(SubSeq(s, 1, FirstDot(s) - 1))]
    ELSE [ok |-> FALSE, val |-> 0]

\* sub in s
Contains(s, sub) ==
    \E i \in 1..(Len(s) - Len(sub) + 1) : SubSeq(s, i, i + Len(sub) - 1) = sub

GrandTotal == <<"G", "r", "a", "n", "d", " ", "T", "o", "t", "a", "l">>
RowLabels == <<"R", "o", "w", " ", "L", "a", "b", "e", "l", "s">>

\* str.contains('Grand Total|Row Labels')
IsSummaryLabel(s) == Contains(s, GrandTotal) \/ Contains(s, RowLabels)

----------------------------------------------------------------------------
(* Cells of the sheet.  A cell is a number, a text, or empty (NaN).  A     *)
(* Period cell is given by its str() rendering.                            *)

Num(n) == [kind |-> "num", val |-> n, str |-> <<>>]
Str(s) == [kind |-> "str", val |-> 0, str |-> s]
NaN == [kind |-> "nan", val |-> 0, str |-> <<>>]

\* pd.notna(cell)
notna(cell) == cell.kind # "nan"

\* str(cell)
str(cell) == IF cell.kind = "nan" THEN <<"n", "a", "n">> ELSE cell.str

\* float(cell) of a cell that is not empty: a number converts; a text converts
\* only when it is numeric (here: all digits), otherwise float() raises
\* ValueError.  The code never passes an empty cell to float().
float(cell) ==
    CASE cell.kind = "num" -> [ok |-> TRUE, val |-> cell.val]
      [] cell.kind = "str" -> ParseInt(cell.str)

\* position of a column label in df.columns (0 when absent)
ColumnIndex(cols, name) ==
    IF \E i \in 1..Len(cols) : cols[i] = name
    THEN CHOOSE i \in 1..Len(cols) : cols[i] = name
    ELSE 0

\* name in row.index
HasColumn(cols, name) == ColumnIndex(cols, name) # 0

\* row[name], for a name that is in df.columns
Cell(cols, row, name) == row[ColumnIndex(cols, name)]

BasicColumns ==
    <<"Period", "Avg_BTC_Price", "MSTR_BTC_Holdings", "MSTR_Holdings_Value",
      "BTC_Closing_Price">>

MnavColumns ==
    <<"MSTR_Market_Cap", "MSTR_Share_Price", "Shares_Outstanding", "Total_Debt",
      "Other_Assets">>

MinBasicColumns == 5
MinMnavColumns == 10

\* df.columns after the two renaming steps
RenameBasic(cols) ==
    IF Len(cols) >= MinBasicColumns
    THEN BasicColumns \o SubSeq(cols, MinBasicColumns + 1, Len(cols))
    ELSE cols

\* variant: len(df.columns) > 10
HasMnavColumnsBeyond(cols) == Len(cols) > MinMnavColumns

\* len(df.columns) >= 10
HasMnavColumns(cols) == Len(cols) >= MinMnavColumns

RenameMnav(cols) ==
    IF HasMnavColumns(cols)
    THEN SubSeq(cols, 1, MinBasicColumns) \o MnavColumns
         \o SubSeq(cols, MinMnavColumns + 1, Len(cols))
    ELSE cols

\* df[~df['Period'].astype(str).str.contains('Grand Total|Row Labels', na=False)]
FilterSummary(cols, rows) ==
    SelectSeq(rows, LAMBDA r : ~IsSummaryLabel(str(Cell(cols, r, "Period"))))

----------------------------------------------------------------------------
(* Row classification and record construction of convert_excel_to_json *)

YearLabelLen == 4
MaxMonth == 12

\* period.replace('.', '').isdigit() and len(period) == 4
IsYearRow(period) == IsDigit(ReplaceDot(period)) /\ Len(period) = YearLabelLen

\* variant: the elif without its isdigit() test
IsMonthRowAnyLabel(period, cy) == cy # <<>>

\* period.replace('.', '').isdigit() and current_year
IsMonthRow(period, cy) == IsDigit(ReplaceDot(period)) /\ cy # <<>>

\* variant: month < 12
IsMonthKeptBelow(month) == month < MaxMonth

\* month <= 12
IsMonthKept(month) == month <= MaxMonth

\* variant: a cell that float() rejects is taken as 0 as well
RequiredFieldLenient(cols, row, name) ==
    IF ~HasColumn(cols, name) THEN [ok |-> FALSE, val |-> 0]
    ELSE IF notna(Cell(cols, row, name)) /\ float(Cell(cols, row, name)).ok
    THEN float(Cell(cols, row, name))
    ELSE [ok |-> TRUE, val |-> 0]

\* float(row[name]) if pd.notna(row[name]) else 0
\* (row[name] raises KeyError when df has no such column)
RequiredField(cols, row, name) ==
    IF ~HasColumn(cols, name) THEN [ok |-> FALSE, val |-> 0]
    ELSE IF notna(Cell(cols, row, name)) THEN float(Cell(cols, row, name))
    ELSE [ok |-> TRUE, val |-> 0]

\* float(row[name]) if pd.notna(row.get(name, 0)) else 0
MnavField(cols, row, name) ==
    IF ~HasColumn(cols, name) THEN [ok |-> FALSE, val |-> 0]
    ELSE IF notna(Cell(cols, row, name)) THEN float(Cell(cols, row, name))
    ELSE [ok |-> TRUE, val |-> 0]

\* the placeholder of an extended field when has_mnav_data is false
Placeholder == [ok |-> TRUE, val |-> 0]

ExtendedField(cols, row, name, mnav) ==
    IF mnav THEN MnavField(cols, row, name) ELSE Placeholder

\* the dict entry, or an exception raised while building it
Entry(cols, row, cy, month, mnav) ==
    LET y  == ParseInt(cy)
        f1 == RequiredField(cols, row, "Avg_BTC_Price")
        f2 == RequiredField(cols, row, "MSTR_BTC_Holdings")
        f3 == RequiredField(cols, row, "MSTR_Holdings_Value")
        f4 == RequiredField(cols, row, "BTC_Closing_Price")
        e1 == ExtendedField(cols, row, "MSTR_Market_Cap", mnav)
        e2 == ExtendedField(cols, row, "MSTR_Share_Price", mnav)
        e3 == ExtendedField(cols, row, "Shares_Outstanding", mnav)
        e4 == ExtendedField(cols, row, "Total_Debt", mnav)
        e5 == ExtendedField(cols, row, "Other_Assets", mnav)
    IN [ok  |-> y.ok /\ f1.ok /\ f2.ok /\ f3.ok /\ f4.ok
                /\ e1.ok /\ e2.ok /\ e3.ok /\ e4.ok /\ e5.ok,
        val |-> [year |-> y.val, month |-> month,
                 avg_btc_price |-> f1.val, mstr_btc_holdings |-> f2.val,
                 mstr_holdings_value |-> f3.val, btc_closing_price |-> f4.val,
                 mstr_market_cap |-> e1.val, mstr_share_price |-> e2.val,
                 shares_outstanding |-> e3.val, total_debt |-> e4.val,
                 other_assets |-> e5.val]]

\* variant: the sort key x['month'] alone
KeyLessMonthOnly(a, b) == a.month < b.month

\* the sort key (x['year'], x['month']), compared as Python compares tuples
KeyLess(a, b) == a.year < b.year \/ (a.year = b.year /\ a.month < b.month)

\* x placed after the elements of the sorted list t whose key is not greater
InsertByKey(t, x) ==
    LET k == Cardinality({i \in 1..Len(t) : ~KeyLess(x, t[i])})
    IN SubSeq(t, 1, k) \o <<x>> \o SubSeq(t, k + 1, Len(t))

\* data.sort(key=...): a stable sort
RECURSIVE SortByKey(_)
SortByKey(s) ==
    IF Len(s) = 0 THEN <<>>
    ELSE InsertByKey(SortByKey(SubSeq(s, 1, Len(s) - 1)), s[Len(s)])

----------------------------------------------------------------------------
(* The derived metrics.  Python floats are modelled as exact rationals     *)
(* n/d with d > 0, in lowest terms; x / y raises ZeroDivisionError exactly *)
(* when y == 0.                                                            *)

Abs(n) == IF n < 0 THEN -n ELSE n

RECURSIVE GCD(_, _)
GCD(a, b) == IF b = 0 THEN a ELSE GCD(b, a % b)

Rat(n, d) ==
    LET g == GCD(Abs(n), Abs(d))
        sg == IF d < 0 THEN -1 ELSE 1
    IN [n |-> sg * (n \div g), d |-> sg * (d \div g)]

FromInt(n) == [n |-> n, d |-> 1]
RAdd(a, b) == Rat(a.n * b.d + b.n * a.d, a.d * b.d)
RSub(a, b) == Rat(a.n * b.d - b.n * a.d, a.d * b.d)
RMul(a, b) == Rat(a.n * b.n, a.d * b.d)
IsZero(a) == a.n = 0

Return(v) == [raised |-> FALSE, val |-> v]
ZeroDivisionError == [raised |-> TRUE, val |-> FromInt(0)]

\* a / b
Divide(a, b) ==
    IF IsZero(b) THEN ZeroDivisionError ELSE Return(Rat(a.n * b.d, a.d * b.n))

\* variant: calculate_mnav without its test of shares_outstanding
calculate_mnav_unguarded(value, assets, debt, shares) ==
    Divide(RSub(RAdd(value, assets), debt), shares)

calculate_mnav(btc_holdings_value, other_assets, total_debt, shares_outstanding) ==
    IF IsZero(shares_outstanding) THEN Return(FromInt(0))
    ELSE Divide(RSub(RAdd(btc_holdings_value, other_assets), total_debt),
                shares_outstanding)

Percent == 100

calculate_premium_discount(share_price, mnav) ==
    IF IsZero(mnav) THEN Return(FromInt(0))
    ELSE LET q == Divide(RSub(share_price, mnav), mnav)
         IN IF q.raised THEN q ELSE Return(RMul(q.val, FromInt(Percent)))

----------------------------------------------------------------------------
(* The inputs: what pd.read_excel(excel_path, skiprows=3) can return *)

\* header names of the sheet, none of them a name the code assigns
SheetHeader == <<"A", "B", "C", "D", "E", "F", "G", "H", "I", "J", "K">>

\* the header of a sheet of n columns; first_is_period: its first column is
\* already headed "Period"
Header(n, first_is_period) ==
    [i \in 1..n |-> IF i = 1 /\ first_is_period THEN "Period" ELSE SheetHeader[i]]

ColumnCounts == {4, 5, 10}

Headers ==
    {Header(n, FALSE) : n \in ColumnCounts}
    \cup {Header(n, TRUE) : n \in {k \in ColumnCounts : k < MinBasicColumns}}

\* a row of n cells: the Period label, then one cell per metric column
Row(n, label, cells) == [i \in 1..n |-> IF i = 1 THEN label ELSE cells[i]]

\* the metric cells of a row, by column: all empty; all numbers; numbers with
\* two empty cells; numbers with a text in the first metric column
Blank == [i \in 1..Len(SheetHeader) |-> NaN]
Filled == [i \in 1..Len(SheetHeader) |-> Num(i)]
Gaps == [i \in 1..Len(SheetHeader) |-> IF i \in {3, 8} THEN NaN ELSE Num(10 + i)]
Dashed == [i \in 1..Len(SheetHeader) |-> IF i = 2 THEN Str(<<"-">>) ELSE Num(i)]

RowsOf(n) ==
    { Row(n, Str(<<"2", "0", "2", "0">>), Blank),
      Row(n, Str(<<"2", "0", "2", "1">>), Blank),
      Row(n, Str(<<"3", ".", "0">>), Filled),
      Row(n, Str(<<"1", "2">>), Gaps),
      Row(n, Str(<<"1", "0", ".", "0">>), Filled),
      Row(n, Str(<<"0">>), Filled),
      Row(n, Str(<<"1", "3">>), Filled),
      Row(n, Str(<<"7">>), Dashed),
      Row(n, Str(GrandTotal), Blank),
      Row(n, NaN, Blank) }

\* the sheets of at most MaxRows data rows
RowCounts == 0..MaxRows

----------------------------------------------------------------------------
(* The program *)

Untouched == [touched |-> FALSE, complete |-> FALSE, content |-> <<>>]

ProgramArgv(n) == [i \in 1..(n + 1) |-> IF i = 1 THEN "update_data.py" ELSE "path"]

Init ==
    /\ pc = "main"
    /\ argv \in {ProgramArgv(n) : n \in 0..MaxArgs}
    /\ file_read = FALSE
    /\ columns = <<>>
    /\ df = <<>>
    /\ idx = 0
    /\ current_year = <<>>
    /\ has_mnav_data = FALSE
    /\ data = <<>>
    /\ data_json = Untouched
    /\ stdout = <<>>
    /\ exit_status = -1
    /\ call = <<>>

\* the status of a run that ends without sys.exit
ExitSuccess == 0

\* sys.exit(1) after the usage text
UsageStatus == 1

\* variant: the handler ends the run with the status of a success
ErrorStatusZero == ExitSuccess

\* sys.exit(1) in the handler of main
ErrorStatus == 1

\* except Exception as e: print the error, sys.exit(1); f is what the failed
\* step left of data.json
Raise(f) ==
    /\ stdout' = Append(stdout, "error")
    /\ exit_status' = ErrorStatus
    /\ data_json' = f
    /\ pc' = "exit"

\* variant: len(sys.argv) < 2
WrongArgCountTooFew(args) == Len(args) < 2

\* len(sys.argv) != 2
WrongArgCount(args) == Len(args) # 2

\* main, up to the try block
CheckArgs ==
    /\ pc = "main"
    /\ IF WrongArgCount(argv)
       THEN /\ stdout' = Append(stdout, "usage")
            /\ exit_status' = UsageStatus
            /\ pc' = "exit"
       ELSE /\ pc' = "read"
            /\ UNCHANGED <<stdout, exit_status>>
    /\ UNCHANGED <<argv, file_read, columns, df, idx, current_year, has_mnav_data,
                   data, data_json, call>>

\* convert_excel_to_json, up to the loop: read, rename, detect, filter.
\* pd.read_excel raises on an unreadable file; df['Period'] raises KeyError
\* when no column is labelled Period.
ReadExcel ==
    /\ pc = "read"
    /\ file_read' = TRUE
    /\ \/ /\ Raise(data_json)
          /\ UNCHANGED <<columns, has_mnav_data, df, idx>>
       \/ \E header \in Headers, k \in RowCounts :
            \E rows \in [1..k -> RowsOf(Len(header))] :
              LET named == RenameBasic(header)
                  cols == RenameMnav(named)
              IN IF HasColumn(cols, "Period")
                 THEN /\ columns' = cols
                      /\ has_mnav_data' = HasMnavColumns(named)
                      /\ df' = FilterSummary(cols, rows)
                      /\ idx' = 1
                      /\ pc' = "loop"
                      /\ UNCHANGED <<stdout, exit_status, data_json>>
                 ELSE /\ Raise(data_json)
                      /\ UNCHANGED <<columns, has_mnav_data, df, idx>>
    /\ UNCHANGED <<argv, current_year, data, call>>

\* one iteration of for _, row in df.iterrows()
LoopRow ==
    /\ pc = "loop"
    /\ idx <= Len(df)
    /\ LET row == df[idx]
           period == str(Cell(columns, row, "Period"))
           month == ParseFloatTrunc(period)
           entry == Entry(columns, row, current_year, month.val, has_mnav_data)
       IN IF IsYearRow(period)
          THEN /\ current_year' = period
               /\ idx' = idx + 1
               /\ UNCHANGED <<pc, data, stdout, exit_status, data_json>>
          ELSE IF IsMonthRow(period, current_year)
          THEN IF ~month.ok \/ (IsMonthKept(month.val) /\ ~entry.ok)
               THEN /\ Raise(data_json)
                    /\ UNCHANGED <<current_year, idx, data>>
               ELSE /\ data' = IF IsMonthKept(month.val)
                               THEN Append(data, entry.val) ELSE data
                    /\ idx' = idx + 1
                    /\ UNCHANGED <<pc, current_year, stdout, exit_status, data_json>>
          ELSE /\ idx' = idx + 1
               /\ UNCHANGED <<pc, current_year, data, stdout, exit_status, data_json>>
    /\ UNCHANGED <<argv, file_read, columns, df, has_mnav_data, call>>

\* the end of the loop: data.sort(...), return data, has_mnav_data
SortAndReturn ==
    /\ pc = "loop"
    /\ idx > Len(df)
    /\ data' = SortByKey(data)
    /\ pc' = "write"
    /\ UNCHANGED <<argv, file_read, columns, df, idx, current_year, has_mnav_data,
                   data_json, stdout, exit_status, call>>

\* open('data.json', 'w') truncates or creates the file; json.dump writes data.
\* Either may fail for a reason of the file system.
WriteOutcomes == {"written", "open fails", "dump fails"}

WriteJson ==
    /\ pc = "write"
    /\ \E outcome \in WriteOutcomes :
         CASE outcome = "written" ->
                /\ data_json' = [touched |-> TRUE, complete |-> TRUE, content |-> data]
                /\ pc' = "print"
                /\ UNCHANGED <<stdout, exit_status>>
           [] outcome = "open fails" -> Raise(data_json)
           [] outcome = "dump fails" ->
                Raise([touched |-> TRUE, complete |-> FALSE, content |-> <<>>])
    /\ UNCHANGED <<argv, file_read, columns, df, idx, current_year, has_mnav_data,
                   data, call>>

\* a call of a metric function, before and after it returns
Pending(fn, args) ==
    [fn |-> fn, args |-> args, done |-> FALSE, result |-> Return(FromInt(0))]
Returned(fn, args, result) ==
    [fn |-> fn, args |-> args, done |-> TRUE, result |-> result]

\* the messages after the write, and the two metric calls for the latest record
PrintSummary ==
    /\ pc = "print"
    /\ LET latest == data[Len(data)]
           mnav == calculate_mnav(FromInt(latest.mstr_holdings_value),
                                  FromInt(latest.other_assets),
                                  FromInt(latest.total_debt),
                                  FromInt(latest.shares_outstanding))
           premium == calculate_premium_discount(FromInt(latest.mstr_share_price),
                                                 mnav.val)
       IN IF Len(data) = 0
          THEN /\ stdout' = Append(stdout, "success")
               /\ exit_status' = ExitSuccess
               /\ UNCHANGED <<call, data_json>>
               /\ pc' = "exit"
          ELSE IF has_mnav_data /\ latest.shares_outstanding > 0
          THEN IF mnav.raised \/ premium.raised
               THEN /\ Raise(data_json)
                    /\ UNCHANGED call
               ELSE /\ stdout' = stdout \o <<"success", "latest", "mnav">>
                    /\ call' = <<Returned("calculate_mnav",
                                          <<FromInt(latest.mstr_holdings_value),
                                            FromInt(latest.other_assets),
                                            FromInt(latest.total_debt),
                                            FromInt(latest.shares_outstanding)>>,
                                          mnav),
                                 Returned("calculate_premium_discount",
                                          <<FromInt(latest.mstr_share_price), mnav.val>>,
                                          premium)>>
                    /\ exit_status' = ExitSuccess
                    /\ UNCHANGED data_json
                    /\ pc' = "exit"
          ELSE /\ stdout' = stdout \o <<"success", "latest">>
                            \o (IF has_mnav_data THEN <<>> ELSE <<"hint">>)
               /\ exit_status' = ExitSuccess
               /\ UNCHANGED <<call, data_json>>
               /\ pc' = "exit"
    /\ UNCHANGED <<argv, file_read, columns, df, idx, current_year, has_mnav_data,
                   data>>

Next == CheckArgs \/ ReadExcel \/ LoopRow \/ SortAndReturn \/ WriteJson \/ PrintSummary

Spec == Init /\ [][Next]_vars

----------------------------------------------------------------------------
(* The two metric functions on their own, over all small arguments *)

Values == (-MaxVal)..MaxVal
Rationals == {Rat(n, d) : n \in Values, d \in 1..MaxVal}

MetricInit ==
    /\ pc = "call"
    /\ call \in {<<Pending("calculate_mnav",
                           <<FromInt(x), FromInt(y), FromInt(z), FromInt(s)>>)>> :
                   x \in Values, y \in Values, z \in Values, s \in Values}
           \cup {<<Pending("calculate_premium_discount", <<p, m>>)>> :
                   p \in Rationals, m \in Rationals}
    /\ argv = ProgramArgv(1)
    /\ file_read = FALSE
    /\ columns = <<>>
    /\ df = <<>>
    /\ idx = 0
    /\ current_year = <<>>
    /\ has_mnav_data = FALSE
    /\ data = <<>>
    /\ data_json = Untouched
    /\ stdout = <<>>
    /\ exit_status = -1

CallMnav ==
    /\ pc = "call"
    /\ call[1].fn = "calculate_mnav"
    /\ LET a == call[1].args
       IN call' = <<Returned(call[1].fn, a, calculate_mnav(a[1], a[2], a[3], a[4]))>>
    /\ pc' = "returned"
    /\ UNCHANGED <<argv, file_read, columns, df, idx, current_year, has_mnav_data,
                   data, data_json, stdout, exit_status>>

CallPremiumDiscount ==
    /\ pc = "call"
    /\ call[1].fn = "calculate_premium_discount"
    /\ LET a == call[1].args
       IN call' = <<Returned(call[1].fn, a, calculate_premium_discount(a[1], a[2]))>>
    /\ pc' = "returned"
    /\ UNCHANGED <<argv, file_read, columns, df, idx, current_year, has_mnav_data,
                   data, data_json, stdout, exit_status>>

MetricNext == CallMnav \/ CallPremiumDiscount

MetricSpec == MetricInit /\ [][MetricNext]_vars

----------------------------------------------------------------------------
(* Vocabulary of the properties, stated on the sheet rather than on the    *)
(* code's own tests                                                        *)

\* the Period label of row i of df, as text
Label(i) == IF df[i][1].kind = "nan" THEN <<"n", "a", "n">> ELSE df[i][1].str

\* digits and dots only, with at least one digit
NumericLabel(l) ==
    /\ \E i \in 1..Len(l) : l[i] \in Digits
    /\ \A i \in 1..Len(l) : l[i] \in Digits \cup {"."}

\* a 4-digit year-group label
FourDigitLabel(l) == Len(l) = 4 /\ \A i \in 1..Len(l) : l[i] \in Digits

\* an integer label, or an integer label followed by ".0"
IntegerLabel(l) == Len(l) > 0 /\ \A i \in 1..Len(l) : l[i] \in Digits
TrailingDecimalLabel(l) ==
    /\ Len(l) >= 3
    /\ l[Len(l) - 1] = "." /\ l[Len(l)] = "0"
    /\ IntegerLabel(SubSeq(l, 1, Len(l) - 2))

\* the integer part of a numeric label with at most one dot
IntegerPart(l) == ParseFloatTrunc(l).val

\* a month label m in 1..12, written as an integer or with a trailing ".0"
MonthLabel(l) ==
    /\ (IntegerLabel(l) /\ ~FourDigitLabel(l)) \/ TrailingDecimalLabel(l)
    /\ IntegerPart(l) \in 1..12

\* the rows the code takes as year markers: numeric labels of 4 characters
MarkerRow(i) == NumericLabel(Label(i)) /\ Len(Label(i)) = 4

\* the last marker row before row i (0 when there is none)
LastMarkerBefore(i) ==
    LET before == {j \in 1..(i - 1) : MarkerRow(j)}
    IN IF before = {} THEN 0 ELSE CHOOSE j \in before : \A k \in before : k <= j

\* the last 4-digit row before row i (0 when there is none)
LastYearBefore(i) ==
    LET before == {j \in 1..(i - 1) : FourDigitLabel(Label(j))}
    IN IF before = {} THEN 0 ELSE CHOOSE j \in before : \A k \in before : k <= j

\* a month row that yields a record: numeric, not a marker, after a marker,
\* and of integer part at most 12
AcceptedRow(i) ==
    /\ NumericLabel(Label(i)) /\ ~MarkerRow(i)
    /\ LastMarkerBefore(i) # 0
    /\ IntegerPart(Label(i)) <= 12

YearOfRow(i) == DecimalValue(Label(LastMarkerBefore(i)))

\* convert_excel_to_json has returned its list
ConvertReturned == pc \in {"write", "print"} \/ (pc = "exit" /\ idx > Len(df))

\* the loop is about to process row idx
AtRow == pc = "loop" /\ idx <= Len(df)

\* the step appends one record
Emits == Len(data') = Len(data) + 1 /\ SubSeq(data', 1, Len(data)) = data

Emitted == data'[Len(data')]

\* a cell that holds a text which is no number
NonNumeric(cell) == cell.kind = "str" /\ ~IntegerLabel(cell.str)

\* the number a non-empty numeric cell holds
CellNumber(cell) == IF cell.kind = "num" THEN cell.val ELSE DecimalValue(cell.str)

\* the value a record takes from a cell: 0 for an empty cell
Sourced(cell) == IF cell.kind = "nan" THEN 0 ELSE CellNumber(cell)

\* the field of a record that is read from sheet column c
FieldOfColumn(e, c) ==
    CASE c = 2 -> e.avg_btc_price
      [] c = 3 -> e.mstr_btc_holdings
      [] c = 4 -> e.mstr_holdings_value
      [] c = 5 -> e.btc_closing_price
      [] c = 6 -> e.mstr_market_cap
      [] c = 7 -> e.mstr_share_price
      [] c = 8 -> e.shares_outstanding
      [] c = 9 -> e.total_debt
      [] c = 10 -> e.other_assets

RequiredColumns == 2..5
ExtendedColumns == 6..10

\* the columns of the sheet the code reads metrics from in this run
ReadColumns ==
    RequiredColumns \cup (IF Len(columns) >= 10 THEN ExtendedColumns ELSE {})

\* row idx is a month row under a 4-digit current year, of month at most 12,
\* in a sheet that has the required columns
AtMonthRow ==
    /\ AtRow
    /\ Len(columns) >= 5
    /\ FourDigitLabel(current_year)
    /\ NumericLabel(Label(idx)) /\ Len(Label(idx)) # 4
    /\ ParseFloatTrunc(Label(idx)).ok
    /\ IntegerPart(Label(idx)) <= 12

----------------------------------------------------------------------------
(* Properties *)

\* C1: whenever convert_excel_to_json has returned, the returned list is in
\* ascending order of (year, month): a record that precedes another has a
\* smaller year, or the same year and a month that is not greater.
Ordered(s) ==
    \A i, j \in 1..Len(s) :
      i < j => \/ s[i].year < s[j].year
               \/ s[i].year = s[j].year /\ s[i].month <= s[j].month

C1_OutputOrdered ==
    /\ ConvertReturned => Ordered(data)
    /\ data_json.complete => Ordered(data_json.content)

\* the year groups came in descending order and the output is ascending
C1_Witness ==
    /\ pc = "write"
    /\ Len(df) >= 1 /\ Label(1) = <<"2", "0", "2", "1">>
    /\ Len(data) = 2
    /\ data[1].year = 2020 /\ data[2].year = 2021

\* C2: no record of the returned list has a month outside 1..12.
C2_MonthInRange ==
    ConvertReturned => \A i \in 1..Len(data) : data[i].month \in 1..12

\* C3 (as stated): the returned list is strictly ascending by (year, month),
\* so no two of its records share a (year, month) pair.
C3_StrictlyAscending ==
    ConvertReturned =>
      \A i, j \in 1..Len(data) :
        i < j => \/ data[i].year < data[j].year
                 \/ data[i].year = data[j].year /\ data[i].month < data[j].month

\* C3 (amended): the returned list holds one record per accepted month row:
\* as many records as accepted rows, and for each (year, month) of the list
\* as many records as there are accepted rows with that year and month.
C3_OneRecordPerMonthRow ==
    ConvertReturned =>
      /\ Len(data) = Cardinality({i \in 1..Len(df) : AcceptedRow(i)})
      /\ \A k \in 1..Len(data) :
           Cardinality({j \in 1..Len(data) :
                          data[j].year = data[k].year /\ data[j].month = data[k].month})
           = Cardinality({i \in 1..Len(df) :
                            /\ AcceptedRow(i)
                            /\ YearOfRow(i) = data[k].year
                            /\ IntegerPart(Label(i)) = data[k].month})

\* a month label repeated under one year gives two records of one pair
C3_Witness ==
    /\ pc = "write"
    /\ \E i, j \in 1..Len(data) :
         i < j /\ data[i].year = data[j].year /\ data[i].month = data[j].month

\* C4: data.json is touched only after convert_excel_to_json has returned;
\* a run in which reading or transforming raised has printed the error, has
\* status 1 and has left data.json untouched; and a run of status 0 has
\* written the complete returned list.
C4_NoPartialSuccess ==
    /\ data_json.touched => ConvertReturned
    /\ (pc = "exit" /\ file_read /\ ~ConvertReturned) =>
         /\ exit_status = 1
         /\ stdout = <<"error">>
         /\ data_json = Untouched
    /\ exit_status = 0 =>
         /\ ConvertReturned
         /\ data_json.complete /\ data_json.content = data

\* the transformation raised after it had built a record
C4_Witness ==
    /\ pc = "exit" /\ file_read
    /\ idx >= 1 /\ idx <= Len(df)
    /\ Len(data) >= 1
    /\ data_json = Untouched

\* C5: a run given any number of arguments other than one never reads the
\* input and never touches data.json, and ends with the usage text and
\* status 1.
C5_UsageError ==
    Len(argv) - 1 # 1 =>
      /\ pc \in {"main", "exit"}
      /\ ~file_read
      /\ data_json = Untouched
      /\ pc = "exit" => stdout = <<"usage">> /\ exit_status = 1

\* a run given two or more arguments has ended
C5_Witness == pc = "exit" /\ Len(argv) - 1 >= 2 /\ exit_status = 1

\* C6 (as stated): a month row whose other cells are in order yields a
\* record, also when a required cell is empty or holds a non-numeric text,
\* and every required field read from such a cell is 0.
C6_DefaultFillAnyCell ==
    [][(/\ AtMonthRow
        /\ \A c \in ReadColumns \ RequiredColumns : ~NonNumeric(df[idx][c]))
       => /\ pc' = "loop"
          /\ Emits
          /\ \A c \in RequiredColumns :
               (df[idx][c].kind = "nan" \/ NonNumeric(df[idx][c]))
                 => FieldOfColumn(Emitted, c) = 0]_vars

\* C6 (amended): of a month row whose other cells are in order, a required
\* cell that is empty gives 0 and a numeric one gives its number, and the row
\* yields its record; a required cell holding a non-numeric text aborts the
\* run instead: the error is printed, the status is 1, no record is added and
\* data.json stays untouched.
C6_DefaultFillEmptyCell ==
    [][(/\ AtMonthRow
        /\ \A c \in ReadColumns \ RequiredColumns : ~NonNumeric(df[idx][c]))
       => IF \E c \in RequiredColumns : NonNumeric(df[idx][c])
          THEN /\ pc' = "exit" /\ exit_status' = 1
               /\ stdout' = Append(stdout, "error")
               /\ data' = data
               /\ data_json' = Untouched
          ELSE /\ pc' = "loop"
               /\ Emits
               /\ \A c \in RequiredColumns :
                    FieldOfColumn(Emitted, c) = Sourced(df[idx][c])]_vars

\* a record was built from a row with an empty required cell, and then a row
\* with a text in a required cell ended the run
C6_Witness ==
    /\ pc = "exit" /\ exit_status = 1
    /\ idx >= 1 /\ idx <= Len(df)
    /\ Len(columns) >= 5
    /\ \E c \in RequiredColumns : NonNumeric(df[idx][c])
    /\ \E i \in 1..Len(data) :
         data[i].mstr_btc_holdings = 0 /\ data[i].avg_btc_price # 0

\* C7: the flag is true exactly when the sheet has at least 10 columns; a
\* record built while it is false has its five extended fields 0, and one
\* built while it is true takes each of them from columns 6-10 of its row
\* (0 for an empty cell).
C7_ExtendedFields ==
    [][/\ pc' \in {"loop", "write", "print"} =>
            has_mnav_data' = (Len(columns') >= 10)
       /\ (AtRow /\ Emits) =>
            \A c \in ExtendedColumns :
              FieldOfColumn(Emitted, c) =
                IF Len(columns) >= 10 THEN Sourced(df[idx][c]) ELSE 0]_vars

\* a sheet of 10 columns gave a record with a sourced and an empty extended cell
C7_Witness ==
    /\ pc = "write" /\ has_mnav_data
    /\ \E i \in 1..Len(data) :
         data[i].shares_outstanding = 0 /\ data[i].mstr_market_cap = 16

\* C8: a row under a 4-digit current year whose label is a month label m
\* (integer or with a trailing ".0") and whose cells are in order yields one
\* record of month m and leaves the current year as it is; and the current
\* year changes only at a 4-digit label.
C8_MonthLabelsAreMonths ==
    [][/\ (/\ AtRow
           /\ Len(columns) >= 5
           /\ FourDigitLabel(current_year)
           /\ MonthLabel(Label(idx))
           /\ \A c \in ReadColumns : ~NonNumeric(df[idx][c]))
          => /\ current_year' = current_year
             /\ Emits
             /\ Emitted.month = IntegerPart(Label(idx))
       /\ (AtRow /\ current_year' # current_year) => FourDigitLabel(Label(idx))]_vars

\* C9: the current year is empty until the first row is processed; a 4-digit row sets
\* it and adds no record; a record has the year of the last 4-digit row
\* before its row; a numeric row before any year marker adds no record; a
\* non-numeric row changes neither the list nor the current year and the loop
\* goes on; and no row of df holds a summary label.
C9_CurrentYear ==
    /\ [](pc \in {"main", "read"} \/ (pc = "loop" /\ idx = 1) => current_year = <<>>)
    /\ [](\A i \in 1..Len(df) : ~IsSummaryLabel(Label(i)))
    /\ [][AtRow =>
           /\ FourDigitLabel(Label(idx)) =>
                current_year' = Label(idx) /\ data' = data
           /\ Emits =>
                /\ LastYearBefore(idx) # 0
                /\ Emitted.year = DecimalValue(Label(LastYearBefore(idx)))
           /\ (NumericLabel(Label(idx)) /\ LastMarkerBefore(idx) = 0
               /\ ~MarkerRow(idx)) => data' = data
           /\ ~NumericLabel(Label(idx)) =>
                /\ data' = data /\ current_year' = current_year
                /\ pc' = "loop"]_vars

\* a second year marker, then a non-numeric row, then a month row of that year
C9_Witness ==
    /\ pc = "write"
    /\ \E i, j, k \in 1..Len(df) :
         /\ i < j /\ j < k
         /\ FourDigitLabel(Label(i)) /\ FourDigitLabel(Label(j))
         /\ Label(i) # Label(j)
         /\ ~NumericLabel(Label(k))
    /\ Len(data) = 1

\* C10: a returned call of either function did not raise; calculate_mnav
\* returns 0 when shares_outstanding is 0 and otherwise the quotient of
\* (x + y - z) by it; calculate_premium_discount returns 0 when mnav is 0 and
\* otherwise 100 times the quotient of (p - mnav) by mnav.
C10_ZeroGuards ==
    \A i \in 1..Len(call) :
      LET c == call[i]
          a == c.args
          r == c.result
      IN c.done =>
           /\ ~r.raised
           /\ c.fn = "calculate_mnav" =>
                IF a[4].n = 0 THEN r.val = FromInt(0)
                ELSE RMul(r.val, a[4]) = RSub(RAdd(a[1], a[2]), a[3])
           /\ c.fn = "calculate_premium_discount" =>
                IF a[2].n = 0 THEN r.val = FromInt(0)
                ELSE RMul(r.val, a[2]) = RMul(RSub(a[1], a[2]), FromInt(100))

\* calculate_mnav returned for shares_outstanding = 0 and a non-zero numerator
C10_Witness ==
    /\ pc = "returned"
    /\ call[1].fn = "calculate_mnav"
    /\ call[1].args[4].n = 0
    /\ RSub(RAdd(call[1].args[1], call[1].args[2]), call[1].args[3]).n # 0

====
